---- MODULE Spec2Model ----
(***************************************************************************)
(* A model of the twitter_clone backend: the relational tables, the media  *)
(* directory, the entity access layer (User, Tweet, Like, Media), the      *)
(* session scope get_session, the api-key and exception middlewares and    *)
(* the routes.                                                             *)
(*                                                                         *)
(* The database is the production one (PostgreSQL): primary keys come from *)
(* sequences that never hand out an id twice, foreign keys are enforced    *)
(* and declared ON DELETE CASCADE, users.api_key is unique.                *)
(*                                                                         *)
(* Entities are identified by their id.  User.name and Tweet.tweet_data    *)
(* are free text that no operation branches on; they are left out.         *)
(* Python's None is 0 wherever an id, a key or a row is expected.          *)
(***************************************************************************)
EXTENDS Integers, Sequences, FiniteSets, TLC

\* ------------------------------------------------------------------ bounds

\* Raw api keys a client may send: 1..MaxKeys.
MaxKeys == 2
\* Rows each sequence may hand out.
MaxUsers == 2
MaxTweets == 2
MaxMedia == 2
MaxLikes == 2
\* Longest tweet_media_ids list of a request.
MaxMediaIds == 2
\* Requests the server works on at a time, and requests each of them serves.
MaxSlots == 2
MaxServed == 2

VARIABLES db, files, seq, resp, slots

vars == <<db, files, seq, resp, slots>>

None == 0

Keys == 1..MaxKeys
UserIds == 1..MaxUsers
TweetIds == 1..MaxTweets
\* One media id more than the sequence hands out: an id that never exists.
MediaIds == 1..(MaxMedia + 1)

\* ------------------------------------------------------------ exceptions

\* An exception is its exact type and, for HTTPException, its status_code.
NoExc == [type |-> "none", status_code |-> 0]

Exc(type) == [type |-> type, status_code |-> 0]

HTTPException(status_code) == [type |-> "HTTPException", status_code |-> status_code]

\* --------------------------------------------------------------- database

EmptyDb ==
    [users |-> {}, subscription |-> {},
     tweets |-> {}, user_tweets |-> {},
     likes |-> {}, user_likes |-> {}, tweets_likes |-> {},
     media |-> {}, tweets_media |-> {}]

UserRowIds(d) == {u.id : u \in d.users}

MediaRowIds(d) == {m.id : m \in d.media}

\* ON DELETE CASCADE of the five association tables: a row goes with either
\* of the rows it references.
Cascade(d) ==
    [d EXCEPT
        !.subscription = {p \in @ : p[1] \in UserRowIds(d) /\ p[2] \in UserRowIds(d)},
        !.user_tweets = {p \in @ : p[1] \in UserRowIds(d) /\ p[2] \in d.tweets},
        !.user_likes = {p \in @ : p[1] \in UserRowIds(d) /\ p[2] \in d.likes},
        !.tweets_likes = {p \in @ : p[1] \in d.tweets /\ p[2] \in d.likes},
        !.tweets_media = {p \in @ : p[1] \in d.tweets /\ p[2] \in MediaRowIds(d)}]

\* The unique index on users.api_key and the primary key users.id.
UsersUnique(d) ==
    \A a, b \in d.users : (a.api_key = b.api_key \/ a.id = b.id) => a = b

\* --------------------------------------------------------- session state

\* What a handler works on inside its session scope: the database as the
\* session sees it (its own flushed and pending changes included), the media
\* directory, the sequences, the exception raised so far and the value
\* returned.
Session(d, fs, sq) == [db |-> d, files |-> fs, seq |-> sq, exc |-> NoExc, out |-> None]

Raise(s, e) == [s EXCEPT !.exc = e]

\* The first element of a collection or query result (None when empty).
first(S) == IF S = {} THEN None ELSE CHOOSE x \in S : \A y \in S : x <= y

\* ------------------------------------------------------------------- User

\* hashlib.sha256(api_key).hexdigest(): the digest of a key is not the key,
\* and distinct keys have distinct digests.
hash_api_key(api_key) == <<"sha256", api_key>>

\* add_user on a table without the unique index on api_key.
add_user_without_index(s, api_key) ==
    [s EXCEPT !.db.users = @ \cup {[id |-> s.seq.users, api_key |-> api_key]},
              !.seq.users = @ + 1,
              !.out = s.seq.users]

\* User.add_user: session.add(new_user), then flush.  The flush inserts the
\* row; the unique index on api_key rejects it with IntegrityError.  A
\* sequence value is drawn only for a row that is inserted.
add_user(s, api_key) ==
    LET new_user == [id |-> s.seq.users, api_key |-> api_key]
        added == [s.db EXCEPT !.users = @ \cup {new_user}]
    IN  IF UsersUnique(added)
        THEN [s EXCEPT !.db = added, !.seq.users = @ + 1, !.out = new_user.id]
        ELSE Raise([s EXCEPT !.db = added], Exc("IntegrityError"))

\* User.get_user_by_api_key: the id of the first matching user, or None.
get_user_by_api_key(d, api_key) ==
    first({u.id : u \in {x \in d.users : x.api_key = api_key}})

\* get_user_by_id that takes the id for a user without looking it up.
get_user_by_id_unchecked(s, user_id) == [s EXCEPT !.out = user_id]

\* User.get_user_by_id: raises UserIdValidationError when absent.
get_user_by_id(s, user_id) ==
    IF user_id \in UserRowIds(s.db)
    THEN [s EXCEPT !.out = user_id]
    ELSE Raise(s, Exc("UserIdValidationError"))

\* User.get_user_with_eager_load: the user's followed collection.
followed(d, user_id) == {p[2] : p \in {q \in d.subscription : q[1] = user_id}}

\* followers that reads the follower column for the followed one.
followers_as_followed(d, user_id) == {p[2] : p \in {q \in d.subscription : q[1] = user_id}}

\* The backref of followed.
followers(d, user_id) == {p[1] : p \in {q \in d.subscription : q[2] = user_id}}

\* follow_user without the comparison of the two ids.
follow_user_unchecked(s, user_to_follow_id, current_user) ==
    LET found == get_user_by_id(s, user_to_follow_id)
    IN  IF found.exc # NoExc
        THEN found
        ELSE [s EXCEPT !.db.subscription = @ \cup {<<current_user, user_to_follow_id>>}]

\* User.follow_user up to the lookup of the user to follow.
follow_user_lookup(s, user_to_follow_id, current_user) ==
    IF current_user = user_to_follow_id
    THEN Raise(s, Exc("SelfFollowingValidationError"))
    ELSE get_user_by_id(s, user_to_follow_id)

\* The rows the flush inserts into subscription after followed.append.
\* Appending to the loaded collection an object it already holds adds
\* nothing: the unit of work inserts only the objects that were not in the
\* collection when it was loaded.
appended(loaded, user_to_follow_id, current_user) ==
    IF user_to_follow_id \in loaded THEN {} ELSE {<<current_user, user_to_follow_id>>}

\* User.follow_user.
follow_user(s, user_to_follow_id, current_user) ==
    LET found == follow_user_lookup(s, user_to_follow_id, current_user)
    IN  IF found.exc # NoExc
        THEN found
        ELSE [s EXCEPT !.db.subscription =
                           @ \cup appended(followed(s.db, current_user),
                                           user_to_follow_id, current_user)]

\* unfollow_user that removes the user when followed and does nothing
\* otherwise.
unfollow_user_if_followed(s, user_to_unfollow_id, current_user) ==
    IF user_to_unfollow_id = current_user
    THEN Raise(s, Exc("SelfUnFollowingValidationError"))
    ELSE LET found == get_user_by_id(s, user_to_unfollow_id)
         IN  IF found.exc # NoExc
             THEN found
             ELSE [s EXCEPT !.db.subscription =
                                @ \ {<<current_user, user_to_unfollow_id>>}]

\* User.unfollow_user.  list.remove of an absent element raises ValueError.
unfollow_user(s, user_to_unfollow_id, current_user) ==
    IF user_to_unfollow_id = current_user
    THEN Raise(s, Exc("SelfUnFollowingValidationError"))
    ELSE LET found == get_user_by_id(s, user_to_unfollow_id)
         IN  IF found.exc # NoExc
             THEN found
             ELSE IF user_to_unfollow_id \notin followed(s.db, current_user)
             THEN Raise(s, Exc("ValueError"))
             ELSE [s EXCEPT !.db.subscription =
                                @ \ {<<current_user, user_to_unfollow_id>>}]

\* User.get_actual_data_of_user: the user with that id, or None.
get_actual_data_of_user(d, user_id) == first({u \in UserRowIds(d) : u = user_id})

\* User.get_user_schema: the user's id, followers and following.
get_user_schema(d, user) ==
    [id |-> user, followers |-> followers(d, user), following |-> followed(d, user)]

\* User.get_actual_data_of_current_user.
get_actual_data_of_current_user(s, user) ==
    [s EXCEPT !.out = <<get_user_schema(s.db, get_actual_data_of_user(s.db, user))>>]

\* User.get_actual_data_of_user_by_id.
get_actual_data_of_user_by_id(s, user_id) ==
    LET user == get_actual_data_of_user(s.db, user_id)
    IN  IF user = None
        THEN Raise(s, Exc("UserIdValidationError"))
        ELSE [s EXCEPT !.out = <<get_user_schema(s.db, user)>>]

\* ------------------------------------------------------------------- Like

\* Like.take_like: the Like rows joined to both the tweet and the user.
take_like(d, tweet_id, user) ==
    {l \in d.likes : <<tweet_id, l>> \in d.tweets_likes /\ <<user, l>> \in d.user_likes}

\* has_like that never finds a like.
has_like_never(d, tweet_id, user) == FALSE

\* Like.has_like.
has_like(d, tweet_id, user) == first(take_like(d, tweet_id, user)) # None

\* get_tweet_of_like that takes the id for a tweet without looking it up.
get_tweet_of_like_unchecked(d, tweet_id) == tweet_id

\* Like.get_tweet_of_like: the tweet with that id, or None.
get_tweet_of_like(d, tweet_id) == first({t \in d.tweets : t = tweet_id})

\* session.delete that deletes, with the Like, every Like of its tweets.
session_delete_likes_of_tweet(d, like) ==
    LET gone == {p[2] : p \in {q \in d.tweets_likes :
                                  \E r \in d.tweets_likes : r[2] = like /\ r[1] = q[1]}}
                    \cup {like}
    IN  [d EXCEPT !.likes = @ \ gone,
                  !.user_likes = {p \in @ : p[2] \notin gone},
                  !.tweets_likes = {p \in @ : p[2] \notin gone}]

\* session.delete(like): the Like row and its rows in both association tables.
session_delete_like(d, like) ==
    [d EXCEPT !.likes = @ \ {like},
              !.user_likes = {p \in @ : p[2] # like},
              !.tweets_likes = {p \in @ : p[2] # like}]

\* delete_like that deletes only when there is a like and raises nothing.
delete_like_if_any(s, tweet_id, user) ==
    LET like == first(take_like(s.db, tweet_id, user))
    IN  IF like = None THEN s ELSE [s EXCEPT !.db = session_delete_like(@, like)]

\* Like.delete_like.  session.delete(None) raises UnmappedInstanceError.
delete_like(s, tweet_id, user) ==
    LET like == first(take_like(s.db, tweet_id, user))
    IN  IF like = None
        THEN Raise(s, Exc("UnmappedInstanceError"))
        ELSE [s EXCEPT !.db = session_delete_like(@, like)]

\* add_like without the has_like branch: a Like is added each time.
add_like_without_toggle(s, tweet_id, user) ==
    LET tweet == get_tweet_of_like(s.db, tweet_id)
        new_like == s.seq.likes
    IN  IF tweet = None
        THEN Raise(s, Exc("TweetIdValidationError"))
        ELSE [s EXCEPT !.db.likes = @ \cup {new_like},
                       !.db.tweets_likes = @ \cup {<<tweet, new_like>>},
                       !.db.user_likes = @ \cup {<<user, new_like>>},
                       !.seq.likes = @ + 1]

\* Like.add_like from the answer of has_like on: removes the user's like of
\* the tweet when there is one, otherwise adds a Like joined to the tweet
\* and to the user.
add_like_after(s, tweet_id, user, liked) ==
    IF liked
    THEN delete_like(s, tweet_id, user)
    ELSE LET tweet == get_tweet_of_like(s.db, tweet_id)
             new_like == s.seq.likes
         IN  IF tweet = None
             THEN Raise(s, Exc("TweetIdValidationError"))
             ELSE [s EXCEPT !.db.likes = @ \cup {new_like},
                            !.db.tweets_likes = @ \cup {<<tweet, new_like>>},
                            !.db.user_likes = @ \cup {<<user, new_like>>},
                            !.seq.likes = @ + 1]

\* Like.add_like.
add_like(s, tweet_id, user) ==
    add_like_after(s, tweet_id, user, has_like(s.db, tweet_id, user))

\* ------------------------------------------------------------------ Media

Range(q) == {q[i] : i \in DOMAIN q}

\* get_all_media that returns None only when no row is found.
get_all_media_some(d, tweet_media_ids) ==
    LET media_result == {m \in d.media : m.id \in Range(tweet_media_ids)}
    IN  IF media_result = {}
        THEN [found |-> FALSE, rows |-> {}]
        ELSE [found |-> TRUE, rows |-> media_result]

\* get_all_media that compares the number of rows with the number of
\* distinct ids of the list.
get_all_media_distinct(d, tweet_media_ids) ==
    LET media_result == {m \in d.media : m.id \in Range(tweet_media_ids)}
    IN  IF Cardinality(media_result) # Cardinality(Range(tweet_media_ids))
        THEN [found |-> FALSE, rows |-> {}]
        ELSE [found |-> TRUE, rows |-> media_result]

\* Media.get_all_media: the rows whose id is in the list, or None when their
\* number differs from the length of the list.  None is the empty set here
\* and found says which.
get_all_media(d, tweet_media_ids) ==
    LET media_result == {m \in d.media : m.id \in Range(tweet_media_ids)}
    IN  IF Cardinality(media_result) # Len(tweet_media_ids)
        THEN [found |-> FALSE, rows |-> {}]
        ELSE [found |-> TRUE, rows |-> media_result]

\* Media.save_media: writes the bytes under a fresh uuid4 name.
save_media(s) ==
    [s EXCEPT !.files = @ \cup {s.seq.uuid}, !.seq.uuid = @ + 1, !.out = s.seq.uuid]

\* Media.delete_media_from_disk: os.remove; an OSError (the file is not
\* there) is logged and swallowed.
delete_media_from_disk(fs, file) == fs \ {file}

\* delete_media_from_db_by_ids without its WHERE clause.
delete_media_from_db_all(d, media_ids) == Cascade([d EXCEPT !.media = {}])

\* Media.delete_media_from_db_by_ids: DELETE FROM media WHERE id IN (...).
delete_media_from_db_by_ids(d, media_ids) ==
    Cascade([d EXCEPT !.media = {m \in @ : m.id \notin media_ids}])

\* add_media_to_database without the is_image check.
add_media_to_database_unvalidated(s, is_image) ==
    LET saved == save_media(s)
        new_media == [id |-> s.seq.media, file |-> saved.out]
    IN  [saved EXCEPT !.db.media = @ \cup {new_media},
                      !.seq.media = @ + 1,
                      !.out = new_media.id]

\* Media.add_media_to_database.  is_image stands for Media.is_image of the
\* uploaded bytes.
add_media_to_database(s, is_image) ==
    IF is_image
    THEN LET saved == save_media(s)
             new_media == [id |-> s.seq.media, file |-> saved.out]
         IN  [saved EXCEPT !.db.media = @ \cup {new_media},
                           !.seq.media = @ + 1,
                           !.out = new_media.id]
    ELSE Raise(s, Exc("ImageValidationError"))

\* ------------------------------------------------------------------ Tweet

\* Tweet.user_association, media_association and like_association, and
\* Like.user_association, as the selectinload/joinedload options load them.
user_association(d, tweet) == {p[1] : p \in {q \in d.user_tweets : q[2] = tweet}}

media_association(d, tweet) == {m \in d.media : <<tweet, m.id>> \in d.tweets_media}

like_association(d, tweet) == {p[2] : p \in {q \in d.tweets_likes : q[1] = tweet}}

like_user_association(d, like) == {p[1] : p \in {q \in d.user_likes : q[2] = like}}

\* add_tweet that makes the tweet with an empty user_association.
add_tweet_without_author(s, tweet_media_ids, user) ==
    LET new_tweet == s.seq.tweets
        media_objects == get_all_media(s.db, tweet_media_ids)
        attached == IF Len(tweet_media_ids) > 0 THEN media_objects.rows ELSE {}
    IN  IF Len(tweet_media_ids) > 0 /\ ~media_objects.found
        THEN Raise(s, Exc("MediaIdValidationError"))
        ELSE [s EXCEPT !.db.tweets = @ \cup {new_tweet},
                       !.db.tweets_media = @ \cup {<<new_tweet, m.id>> : m \in attached},
                       !.seq.tweets = @ + 1,
                       !.out = new_tweet]

\* Tweet.add_tweet.  An empty list is falsy: no media is looked up.
add_tweet(s, tweet_media_ids, user) ==
    LET new_tweet == s.seq.tweets
        media_objects == get_all_media(s.db, tweet_media_ids)
        attached == IF Len(tweet_media_ids) > 0 THEN media_objects.rows ELSE {}
    IN  IF Len(tweet_media_ids) > 0 /\ ~media_objects.found
        THEN Raise(s, Exc("MediaIdValidationError"))
        ELSE [s EXCEPT !.db.tweets = @ \cup {new_tweet},
                       !.db.user_tweets = @ \cup {<<user, new_tweet>>},
                       !.db.tweets_media = @ \cup {<<new_tweet, m.id>> : m \in attached},
                       !.seq.tweets = @ + 1,
                       !.out = new_tweet]

\* take_tweet without the comparison of the author with the user.
take_tweet_of_anyone(d, tweet_id, user) ==
    IF tweet_id \in d.tweets THEN tweet_id ELSE None

\* Tweet.take_tweet: the tweet when it exists and its first author is the
\* user, else None.
take_tweet(d, tweet_id, user) ==
    IF tweet_id \in d.tweets /\ first(user_association(d, tweet_id)) = user
    THEN tweet_id
    ELSE None

\* Tweet.delete_associated_media: removes each file, then the rows.
RECURSIVE remove_files(_, _)
remove_files(fs, medias) ==
    IF medias = {}
    THEN fs
    ELSE LET m == CHOOSE x \in medias : TRUE
         IN  remove_files(delete_media_from_disk(fs, m.file), medias \ {m})

\* delete_associated_media that spares the media attached to another tweet.
delete_associated_media_unshared(s, medias) ==
    LET own == {m \in medias :
                   Cardinality({p \in s.db.tweets_media : p[2] = m.id}) = 1}
    IN  [s EXCEPT !.files = remove_files(@, own),
                  !.db = delete_media_from_db_by_ids(@, {m.id : m \in own})]

delete_associated_media(s, medias) ==
    [s EXCEPT !.files = remove_files(@, medias),
              !.db = delete_media_from_db_by_ids(@, {m.id : m \in medias})]

\* delete_associated_likes that deletes nothing.
delete_associated_likes_skipped(s, likes, loaded, tweet_id) == s

\* Tweet.delete_associated_likes: Like.delete_like for each loaded Like, with
\* the first user of that Like as it was loaded with the tweet.
RECURSIVE delete_associated_likes(_, _, _, _)
delete_associated_likes(s, likes, loaded, tweet_id) ==
    IF likes = {} \/ s.exc # NoExc
    THEN s
    ELSE LET like == first(likes)
             user == first(like_user_association(loaded, like))
         IN  IF user = None
             THEN Raise(s, Exc("IndexError"))
             ELSE delete_associated_likes(
                      delete_like(s, tweet_id, user), likes \ {like}, loaded, tweet_id)

\* session.delete(tweet) and the flush: the row and its association rows.
session_delete_tweet(d, tweet) ==
    Cascade([d EXCEPT !.tweets = @ \ {tweet},
                      !.user_tweets = {p \in @ : p[2] # tweet},
                      !.tweets_likes = {p \in @ : p[1] # tweet},
                      !.tweets_media = {p \in @ : p[1] # tweet}])

\* Tweet.delete_tweet.
delete_tweet(s, tweet_id, user) ==
    LET tweet == take_tweet(s.db, tweet_id, user)
        no_media == delete_associated_media(s, media_association(s.db, tweet))
        no_likes == delete_associated_likes(
                        no_media, like_association(s.db, tweet), s.db, tweet)
    IN  IF tweet = None
        THEN Raise(s, Exc("TweetIdValidationError"))
        ELSE IF no_likes.exc # NoExc
        THEN no_likes
        ELSE [no_likes EXCEPT !.db = session_delete_tweet(@, tweet)]

\* ------------------------------------------------------------------- feed

\* The elements of a finite set of numbers in ascending order.
RECURSIVE Ascending(_)
Ascending(S) ==
    IF S = {} THEN <<>> ELSE <<first(S)>> \o Ascending(S \ {first(S)})

\* Every order in which a query without ORDER BY may return the rows S.
Orders(S) ==
    {q \in [1..Cardinality(S) -> S] : \A i, j \in DOMAIN q : i # j => q[i] # q[j]}

\* The query of User.take_tweets_of_current_user_followed: the tweets with an
\* author among the ids the user follows.
tweets_of_followed(d, user) ==
    {t \in d.tweets : user_association(d, t) \cap followed(d, user) # {}}

\* User.make_list_of_sorted_tweets: (author id, author name, tweet) for each
\* fetched tweet, the author being the tweet's first.
unsorted_tweets(d, fetched) ==
    [i \in DOMAIN fetched |->
        [author |-> first(user_association(d, fetched[i])), tweet |-> fetched[i]]]

\* sort_tweets without reverse=True: the fetched order is kept.
sort_tweets_unsorted(d, tweets) == tweets

\* sort_tweets that sorts ascending and reverses the result: tweets of equal
\* like count come out in the reverse of the fetched order.
RECURSIVE sort_tweets_then_reversed(_, _)
sort_tweets_then_reversed(d, tweets) ==
    IF tweets = <<>>
    THEN <<>>
    ELSE LET head == sort_tweets_then_reversed(d, SubSeq(tweets, 1, Len(tweets) - 1))
             last == tweets[Len(tweets)]
             before == Cardinality({i \in DOMAIN head :
                           Cardinality({p \in d.tweets_likes : p[1] = head[i].tweet})
                               > Cardinality({p \in d.tweets_likes : p[1] = last.tweet})})
         IN  SubSeq(head, 1, before) \o <<last>> \o SubSeq(head, before + 1, Len(head))

\* User.sort_tweets: sorted(key=len(like_association), reverse=True).  Python's
\* sort is stable, also with reverse=True: an element goes after every
\* element whose key is not smaller.
like_count(d, tweet) == Cardinality(like_association(d, tweet))

RECURSIVE sort_tweets(_, _)
sort_tweets(d, tweets) ==
    IF tweets = <<>>
    THEN <<>>
    ELSE LET head == sort_tweets(d, SubSeq(tweets, 1, Len(tweets) - 1))
             last == tweets[Len(tweets)]
             before == Cardinality({i \in DOMAIN head :
                           like_count(d, head[i].tweet) >= like_count(d, last.tweet)})
         IN  SubSeq(head, 1, before) \o <<last>> \o SubSeq(head, before + 1, Len(head))

\* The liking users of a tweet, one for each user of each of its Like rows.
RECURSIVE liked_users(_, _)
liked_users(d, likes) ==
    IF likes = <<>>
    THEN <<>>
    ELSE Ascending(like_user_association(d, Head(likes))) \o liked_users(d, Tail(likes))

\* User.get_list_of_tweet_schemas.
get_list_of_tweet_schemas(d, tweets) ==
    [i \in DOMAIN tweets |->
        [id |-> tweets[i].tweet,
         attachments |-> {<<"/images", m.file>> : m \in media_association(d, tweets[i].tweet)},
         author |-> tweets[i].author,
         likes |-> liked_users(d, Ascending(like_association(d, tweets[i].tweet)))]]

\* User.get_all_tweets; fetched is the order in which the query returned
\* the tweets.
get_all_tweets(s, user, fetched) ==
    [s EXCEPT !.out =
        get_list_of_tweet_schemas(s.db, sort_tweets(s.db, unsorted_tweets(s.db, fetched)))]

\* ------------------------------------------------------------ get_session

\* get_session that commits whether or not the body raised.
get_session_commit_always(d, body) == body

\* database.connection.get_session around a body that ended as `body`:
\* commit when the body raised nothing, rollback when it raised, and the
\* exception is raised again.  Files and sequence values are outside the
\* transaction.
get_session(d, body) ==
    IF body.exc = NoExc
    THEN body
    ELSE [body EXCEPT !.db = d]

\* ------------------------------------------------------------ middlewares

\* The paths check_api_key lets through without a key.
no_key_paths == {"create_user", "docs"}

\* check_api_key that lets a request through whether or not its key is a
\* user's.
check_api_key_open(d, path, api_key) ==
    [exc |-> NoExc, user |-> get_user_by_api_key(d, hash_api_key(api_key))]

\* middlewares.api_key_authentication.check_api_key: the user of the request,
\* or the HTTPException it raises.
check_api_key(d, path, api_key) ==
    LET user == get_user_by_api_key(d, hash_api_key(api_key))
    IN  IF path \in no_key_paths
        THEN [exc |-> NoExc, user |-> None]
        ELSE IF api_key = None
        THEN [exc |-> HTTPException(400), user |-> None]
        ELSE IF user = None
        THEN [exc |-> HTTPException(403), user |-> None]
        ELSE [exc |-> NoExc, user |-> user]

common_error_message ==
    [status_code |-> 400,
     error_message |-> "The provided id could not be found",
     error_type |-> "IDValidationError"]

\* ErrorHandler.error_handlers, keyed by the exact exception type.
error_handlers ==
    [ImageValidationError |->
        [status_code |-> 400,
         error_message |-> "Failed attempt to upload a photo",
         error_type |-> "ImageValidationError"],
     IntegrityError |->
        [status_code |-> 400,
         error_message |-> "the transferred data is already exists",
         error_type |-> "UniqueDataError"],
     UnmappedInstanceError |->
        [status_code |-> 400,
         error_message |-> "Nothing to delete",
         error_type |-> "UnmappedInstanceError"],
     SelfFollowingValidationError |->
        [status_code |-> 400,
         error_message |-> "It is impossible to subscribe to yourself",
         error_type |-> "SelfFollowingValidationError"],
     SelfUnFollowingValidationError |->
        [status_code |-> 400,
         error_message |-> "It is impossible to unsubscribe to yourself",
         error_type |-> "SelfUnFollowingValidationError"],
     UserIdValidationError |-> common_error_message,
     TweetIdValidationError |-> common_error_message,
     InvalidRequestError |-> common_error_message,
     MediaIdValidationError |-> common_error_message]

\* api_utils.generate_error_response.
generate_error_response(status_code, error_type, error_message) ==
    [status_code |-> status_code, result |-> FALSE,
     error_type |-> error_type, error_message |-> error_message, body |-> <<>>]

\* The exception classes a request may raise below exception_middleware: the
\* registered ones, the ones the handlers let through (HTTPException of
\* check_api_key, ValueError of list.remove, IndexError of an empty list)
\* and NoResultFound and MultipleResultsFound of scalar_one.
raised_types ==
    <<"ImageValidationError", "IntegrityError", "UnmappedInstanceError",
      "SelfFollowingValidationError", "SelfUnFollowingValidationError",
      "UserIdValidationError", "TweetIdValidationError", "InvalidRequestError",
      "MediaIdValidationError", "HTTPException", "ValueError", "IndexError",
      "NoResultFound", "MultipleResultsFound">>

\* The class a class is derived from: sqlalchemy's NoResultFound and
\* MultipleResultsFound are subclasses of InvalidRequestError.
base_of(type) ==
    IF type \in {"NoResultFound", "MultipleResultsFound"}
    THEN "InvalidRequestError"
    ELSE "Exception"

\* handle_errors that looks the handler up as isinstance would: by the
\* class, then by the class it is derived from.
handle_errors_by_isinstance(exc) ==
    LET type == IF exc.type \in DOMAIN error_handlers THEN exc.type ELSE base_of(exc.type)
    IN  IF type \in DOMAIN error_handlers
        THEN generate_error_response(
                 error_handlers[type].status_code, error_handlers[type].error_type,
                 error_handlers[type].error_message)
        ELSE generate_error_response(
                 500, exc.type, "Something went wrong on the server side")

\* ErrorHandler.handle_errors for a request that raised exc: the registered
\* response for the exact type, else 500 with the type's name.
handle_errors(exc) ==
    IF exc.type \in DOMAIN error_handlers
    THEN LET error_info == error_handlers[exc.type]
         IN  generate_error_response(
                 error_info.status_code, error_info.error_type, error_info.error_message)
    ELSE generate_error_response(
             500, exc.type, "Something went wrong on the server side")

\* ----------------------------------------------------------------- routes

\* The status_code of each route's decorator.
success_status ==
    [create_user |-> 201, create_tweet |-> 201, create_media |-> 201,
     like_tweet |-> 201, follow_user |-> 201,
     delete_tweet |-> 200, unlike_tweet |-> 200, unfollow_user |-> 200,
     get_tweets |-> 200, get_current_user |-> 200, get_user |-> 200, docs |-> 200]

\* A request: the route, the api-key header (None when absent), the id in
\* the path (for create_user the key in the body, for create_media whether
\* the upload is an image), the tweet_media_ids of the body, and for
\* get_tweets the order in which the tweets query returns its rows.
Request(op, hdr, arg, ids, fetched) ==
    [op |-> op, hdr |-> hdr, arg |-> arg, ids |-> ids, fetched |-> fetched]

\* The body of each route's `async with session_manager as session`.
route(rq, s, user) ==
    CASE rq.op = "create_user" -> add_user(s, hash_api_key(rq.arg))
      [] rq.op = "create_tweet" -> add_tweet(s, rq.ids, user)
      [] rq.op = "create_media" -> add_media_to_database(s, rq.arg = 1)
      [] rq.op = "like_tweet" -> add_like(s, rq.arg, user)
      [] rq.op = "follow_user" -> follow_user(s, rq.arg, user)
      [] rq.op = "delete_tweet" -> delete_tweet(s, rq.arg, user)
      [] rq.op = "unlike_tweet" -> delete_like(s, rq.arg, user)
      [] rq.op = "unfollow_user" -> unfollow_user(s, rq.arg, user)
      [] rq.op = "get_tweets" -> get_all_tweets(s, user, rq.fetched)
      [] rq.op = "get_current_user" -> get_actual_data_of_current_user(s, user)
      [] rq.op = "get_user" -> get_actual_data_of_user_by_id(s, rq.arg)
      [] OTHER -> s

\* The response of the request rq that ended its route, or its
\* authentication, as `done`.
response(rq, done) ==
    IF done.exc = NoExc
    THEN [status_code |-> success_status[rq.op], result |-> TRUE,
          error_type |-> "", error_message |-> "",
          body |-> IF rq.op \in {"get_tweets", "get_current_user", "get_user"}
                   THEN done.out
                   ELSE <<>>]
    ELSE handle_errors(done.exc)

Served(rq, auth, done, answer) ==
    [db |-> done.db, files |-> done.files, seq |-> done.seq,
     resp |-> [op |-> rq.op, hdr |-> rq.hdr, arg |-> rq.arg, ids |-> rq.ids,
               user |-> auth.user, reached |-> auth.exc = NoExc]
              @@ answer]

Authenticated(st, rq, auth, s) ==
    IF auth.exc = NoExc
    THEN get_session(st.db, route(rq, s, auth.user))
    ELSE Raise(s, auth.exc)

Routed(rq, auth, done) == Served(rq, auth, done, response(rq, done))

Checked(st, rq, auth) ==
    Routed(rq, auth, Authenticated(st, rq, auth, Session(st.db, st.files, st.seq)))

\* One request through exception_middleware, api_key_middleware and the
\* route, from the state st: the state after it and the response, which
\* is kept with the request it answers, the user the request was served
\* for and whether it reached its route.
Serve(st, rq) == Checked(st, rq, check_api_key(st.db, rq.op, rq.hdr))

\* ----------------------------------------------------------- specification

State == [db |-> db, files |-> files, seq |-> seq]

WithinBounds(sq) ==
    /\ sq.users <= MaxUsers + 1
    /\ sq.tweets <= MaxTweets + 1
    /\ sq.media <= MaxMedia + 1
    /\ sq.uuid <= MaxMedia + 1
    /\ sq.likes <= MaxLikes + 1

NoResponse ==
    [op |-> "none", hdr |-> None, arg |-> None, ids |-> <<>>, user |-> None,
     reached |-> FALSE, status_code |-> 0, result |-> FALSE,
     error_type |-> "", error_message |-> "", body |-> <<>>]

\* The client sends its requests one after another: the next one when it
\* has read the response to the last.
Idle == resp = NoResponse

\* The requests the server works on at a time.  Each has its own session;
\* the specification of overlapping requests below moves them step by step,
\* here they stay idle.  loaded is the followed collection follow_user loaded,
\* snapshot the rows as take_tweet loaded them, logged the paths whose
\* removal from disk failed and was logged, calls the calls of get_session
\* on the session.
Slots == 1..MaxSlots

IdleSlot ==
    [pc |-> "idle", op |-> "none", user |-> None, arg |-> None,
     liked |-> FALSE, loaded |-> {}, snapshot |-> EmptyDb, logged |-> {},
     ins |-> EmptyDb, del |-> EmptyDb,
     exc |-> NoExc, calls |-> <<>>, status_code |-> 0, served |-> 0]

\* The server answers one request.
Answer(rq) ==
    \E after \in {Serve(State, rq)} :
        /\ WithinBounds(after.seq)
        /\ db' = after.db
        /\ files' = after.files
        /\ seq' = after.seq
        /\ resp' = after.resp
        /\ UNCHANGED slots

Headers == {None} \cup Keys

MediaIdLists == UNION {[1..n -> MediaIds] : n \in 0..MaxMediaIds}

create_user ==
    /\ Idle
    /\ \E key \in Keys : Answer(Request("create_user", None, key, <<>>, <<>>))

docs ==
    /\ Idle
    /\ \E hdr \in Headers : Answer(Request("docs", hdr, None, <<>>, <<>>))

create_tweet ==
    /\ Idle
    /\ \E hdr \in Headers, ids \in MediaIdLists :
           Answer(Request("create_tweet", hdr, None, ids, <<>>))

create_media ==
    /\ Idle
    /\ \E hdr \in Headers, is_image \in {0, 1} :
           Answer(Request("create_media", hdr, is_image, <<>>, <<>>))

like_tweet ==
    /\ Idle
    /\ \E hdr \in Headers, tweet_id \in TweetIds :
           Answer(Request("like_tweet", hdr, tweet_id, <<>>, <<>>))

unlike_tweet ==
    /\ Idle
    /\ \E hdr \in Headers, tweet_id \in TweetIds :
           Answer(Request("unlike_tweet", hdr, tweet_id, <<>>, <<>>))

delete_tweet_route ==
    /\ Idle
    /\ \E hdr \in Headers, tweet_id \in TweetIds :
           Answer(Request("delete_tweet", hdr, tweet_id, <<>>, <<>>))

follow_user_route ==
    /\ Idle
    /\ \E hdr \in Headers, user_id \in UserIds :
           Answer(Request("follow_user", hdr, user_id, <<>>, <<>>))

unfollow_user_route ==
    /\ Idle
    /\ \E hdr \in Headers, user_id \in UserIds :
           Answer(Request("unfollow_user", hdr, user_id, <<>>, <<>>))

\* The rows the tweets query of a get_tweets request with that header finds.
Fetchable(hdr) ==
    tweets_of_followed(db, get_user_by_api_key(db, hash_api_key(hdr)))

get_tweets ==
    /\ Idle
    /\ \E hdr \in Headers :
           \E fetched \in Orders(Fetchable(hdr)) :
               Answer(Request("get_tweets", hdr, None, <<>>, fetched))

get_current_user ==
    /\ Idle
    /\ \E hdr \in Headers : Answer(Request("get_current_user", hdr, None, <<>>, <<>>))

get_user ==
    /\ Idle
    /\ \E hdr \in Headers, user_id \in UserIds :
           Answer(Request("get_user", hdr, user_id, <<>>, <<>>))

\* The client reads the response.
Deliver ==
    /\ ~Idle
    /\ resp' = NoResponse
    /\ UNCHANGED <<db, files, seq, slots>>

\* A request during which something below exception_middleware raises an
\* exception of the class raised_types[n]; get_session rolls back.  The
\* class is kept in the response's record as arg.
route_raises ==
    /\ Idle
    /\ \E n \in DOMAIN raised_types :
           resp' = [op |-> "raise", hdr |-> None, arg |-> n, ids |-> <<>>,
                    user |-> None, reached |-> TRUE]
                   @@ handle_errors(Exc(raised_types[n]))
    /\ UNCHANGED <<db, files, seq, slots>>

Init ==
    /\ db = EmptyDb
    /\ files = {}
    /\ seq = [users |-> 1, tweets |-> 1, likes |-> 1, media |-> 1, uuid |-> 1]
    /\ resp = NoResponse
    /\ slots = [i \in Slots |-> IdleSlot]

Next ==
    \/ create_user
    \/ docs
    \/ create_tweet
    \/ create_media
    \/ like_tweet
    \/ unlike_tweet
    \/ delete_tweet_route
    \/ follow_user_route
    \/ unfollow_user_route
    \/ get_tweets
    \/ get_current_user
    \/ get_user
    \/ Deliver

Spec == Init /\ [][Next]_vars

\* The application with requests that raise any of raised_types.
NextErrors == Next \/ route_raises

SpecErrors == Init /\ [][NextErrors]_vars

\* ---------------------------------------------------- overlapping requests

\* Each request runs in its own session and transaction (READ COMMITTED):
\* a query sees the committed rows and what its own session inserted (ins)
\* and deleted (del); its writes reach the database at commit.
View(d, slot) == [f \in DOMAIN d |-> (d[f] \ slot.del[f]) \cup slot.ins[f]]

Diff(a, b) == [f \in DOMAIN a |-> a[f] \ b[f]]

Union(a, b) == [f \in DOMAIN a |-> a[f] \cup b[f]]

\* The constraints without the primary key of subscription.
constraints_without_subscription_key(d, ins) == TRUE

\* The constraints with one more: a unique index that admits one Like for
\* a user and a tweet.
constraints_with_unique_like(d, ins) ==
    /\ ins.subscription \cap d.subscription = {}
    /\ \A p \in ins.tweets_likes : p[1] \in d.tweets
    /\ \A l \in ins.likes :
           \A u \in UserIds, t \in TweetIds :
               (<<u, l>> \in ins.user_likes /\ <<t, l>> \in ins.tweets_likes) =>
                   take_like(d, t, u) = {}

\* The constraints an INSERT of the rows ins into the committed rows d must
\* meet: the primary keys, and the foreign key of tweets_likes to tweets.
\* likes.id comes from a sequence and the keys of user_likes and
\* tweets_likes hold like_id, so of the keys only that of subscription can
\* refuse a row.  No user is ever deleted.
constraints(d, ins) ==
    /\ ins.subscription \cap d.subscription = {}
    /\ ins.likes \cap d.likes = {}
    /\ \A p \in ins.tweets_likes : p[1] \in d.tweets

\* get_session without its finally clause: the session is closed only after
\* a commit.
get_session_without_finally(pc, raised) ==
    CASE pc = "body" -> IF raised THEN "rollback" ELSE "commit"
      [] pc = "commit" -> IF raised THEN "rollback" ELSE "close"
      [] pc = "rollback" -> "done"
      [] OTHER -> "done"

\* database.connection.get_session, step by step: where it goes on from pc,
\* the body (or the commit, or the rollback) having raised or not.
get_session_step(pc, raised) ==
    CASE pc = "body" -> IF raised THEN "rollback" ELSE "commit"
      [] pc = "commit" -> IF raised THEN "rollback" ELSE "close"
      [] pc = "rollback" -> "close"
      [] OTHER -> "done"

\* The route's body ended as `body` (a session state over the slot's view):
\* the slot takes over what it wrote and goes on in get_session.
Ended(slot, view, body) ==
    [slot EXCEPT !.exc = body.exc,
                 !.ins = Union(Diff(@, Diff(view, body.db)), Diff(body.db, view)),
                 !.del = Union(@, Diff(view, body.db)),
                 !.pc = get_session_step("body", body.exc # NoExc)]

\* A slot takes a request of an authenticated user; get_session makes its
\* session.
Taken(slot, op, user, arg, pc) ==
    [IdleSlot EXCEPT !.pc = pc, !.op = op, !.user = user, !.arg = arg,
                     !.served = slot.served + 1]

\* The slot works on no request and may take another.
Free(slot) ==
    /\ slot.pc = "idle" \/ (slot.pc = "done" /\ slot.status_code # 0)
    /\ slot.served < MaxServed

conc_like_tweet(i) ==
    /\ Free(slots[i])
    /\ \E user \in UserRowIds(db), tweet_id \in TweetIds :
           slots' = [slots EXCEPT ![i] = Taken(@, "like_tweet", user, tweet_id, "has_like")]
    /\ UNCHANGED <<db, files, seq, resp>>

conc_follow_user(i) ==
    /\ Free(slots[i])
    /\ \E user \in UserRowIds(db), user_id \in UserIds :
           slots' = [slots EXCEPT ![i] = Taken(@, "follow_user", user, user_id, "lookup")]
    /\ UNCHANGED <<db, files, seq, resp>>

\* Like.add_like: await cls.has_like(...).
conc_has_like(i) ==
    /\ slots[i].pc = "has_like"
    /\ slots' = [slots EXCEPT ![i].liked = has_like(View(db, slots[i]),
                                                    slots[i].arg, slots[i].user),
                              ![i].pc = "add_like"]
    /\ UNCHANGED <<db, files, seq, resp>>

\* Like.add_like after has_like: delete_like, or the lookup of the tweet
\* and session.add.  The rows are written when the session is flushed, in
\* the commit.
conc_add_like(i) ==
    /\ slots[i].pc = "add_like"
    /\ \E body \in {add_like_after(Session(View(db, slots[i]), files, seq),
                                   slots[i].arg, slots[i].user, slots[i].liked)} :
           /\ WithinBounds(body.seq)
           /\ seq' = body.seq
           /\ slots' = [slots EXCEPT ![i] = Ended(@, View(db, slots[i]), body)]
    /\ UNCHANGED <<db, files, resp>>

\* User.follow_user: the comparison of the ids and await get_user_by_id.
conc_follow_lookup(i) ==
    /\ slots[i].pc = "lookup"
    /\ \E found \in {follow_user_lookup(Session(View(db, slots[i]), files, seq),
                                       slots[i].arg, slots[i].user)} :
           slots' = [slots EXCEPT ![i] =
                        IF found.exc # NoExc
                        THEN Ended(@, View(db, slots[i]), found)
                        ELSE [@ EXCEPT !.pc = "load"]]
    /\ UNCHANGED <<db, files, seq, resp>>

\* User.follow_user: await get_user_with_eager_load.
conc_follow_load(i) ==
    /\ slots[i].pc = "load"
    /\ slots' = [slots EXCEPT ![i].loaded = followed(View(db, slots[i]), slots[i].user),
                              ![i].pc = "flush"]
    /\ UNCHANGED <<db, files, seq, resp>>

\* User.follow_user: followed.append and the flush.  The INSERT of a row
\* that is committed is refused at once with IntegrityError.
conc_follow_flush(i) ==
    /\ slots[i].pc = "flush"
    /\ \E rows \in {appended(slots[i].loaded, slots[i].arg, slots[i].user)} :
           slots' = [slots EXCEPT ![i] =
                        IF constraints(db, [EmptyDb EXCEPT !.subscription = rows])
                        THEN [@ EXCEPT !.ins.subscription = @ \cup rows,
                                       !.pc = get_session_step("body", FALSE)]
                        ELSE [@ EXCEPT !.exc = Exc("IntegrityError"),
                                       !.pc = get_session_step("body", TRUE)]]
    /\ UNCHANGED <<db, files, seq, resp>>

\* The session deleted a row that another transaction has deleted and
\* committed since.
Stale(d, del) == \E f \in DOMAIN d : del[f] \ d[f] # {}

\* What the transaction ends with: an INSERT that waited for a row of
\* another transaction is refused when that transaction has committed; a
\* DELETE that then matches no row raises StaleDataError or passes,
\* depending on the rowcount the driver reports.
Refusals(d, slot) ==
    IF ~constraints(d, slot.ins) THEN {Exc("IntegrityError")}
    ELSE IF Stale(d, slot.del) THEN {Exc("StaleDataError"), NoExc}
    ELSE {NoExc}

\* A row lock: another transaction has deleted one of the rows, or the tweet
\* one of the rows refers to, and has not ended.  A statement that deletes
\* or refers to such a row waits for that transaction.
Waits(i, rows) ==
    \E j \in Slots \ {i} :
        \/ \E f \in DOMAIN rows : slots[j].del[f] \cap rows[f] # {}
        \/ \E p \in rows.tweets_likes : p[1] \in slots[j].del.tweets

\* get_session: await session.commit(), which flushes what is pending.
conc_commit(i) ==
    /\ slots[i].pc = "commit"
    /\ ~Waits(i, Union(slots[i].ins, slots[i].del))
    /\ \E refusal \in Refusals(db, slots[i]) :
           /\ db' = IF refusal = NoExc THEN View(db, slots[i]) ELSE db
           /\ slots' = [slots EXCEPT ![i].calls = Append(@, "commit"),
                                     ![i].exc = refusal,
                                     ![i].pc = get_session_step("commit", refusal # NoExc)]
    /\ UNCHANGED <<files, seq, resp>>

\* get_session: await session.rollback().
conc_rollback(i) ==
    /\ slots[i].pc = "rollback"
    /\ slots' = [slots EXCEPT ![i].calls = Append(@, "rollback"),
                              ![i].ins = EmptyDb,
                              ![i].del = EmptyDb,
                              ![i].pc = get_session_step("rollback", FALSE)]
    /\ UNCHANGED <<db, files, seq, resp>>

\* get_session: await session.close(); then the response, or the exception
\* raised again and answered by exception_middleware.
conc_close(i) ==
    /\ slots[i].pc = "close"
    /\ slots' = [slots EXCEPT ![i].calls = Append(@, "close"),
                              ![i].pc = get_session_step("close", FALSE)]
    /\ UNCHANGED <<db, files, seq, resp>>

conc_respond(i) ==
    /\ slots[i].pc = "done"
    /\ slots[i].status_code = 0
    /\ slots' = [slots EXCEPT ![i].status_code =
                     IF slots[i].exc = NoExc
                     THEN success_status[slots[i].op]
                     ELSE handle_errors(slots[i].exc).status_code]
    /\ UNCHANGED <<db, files, seq, resp>>

\* Two users and a tweet of the first, as three requests served one after
\* another leave them.
InitConc ==
    /\ db = [EmptyDb EXCEPT !.users = {[id |-> k, api_key |-> hash_api_key(k)] : k \in 1..2},
                            !.tweets = {1},
                            !.user_tweets = {<<1, 1>>}]
    /\ files = {}
    /\ seq = [users |-> 3, tweets |-> 2, likes |-> 1, media |-> 1, uuid |-> 1]
    /\ resp = NoResponse
    /\ slots = [i \in Slots |-> IdleSlot]

NextConc ==
    \E i \in Slots :
        \/ conc_like_tweet(i)
        \/ conc_follow_user(i)
        \/ conc_has_like(i)
        \/ conc_add_like(i)
        \/ conc_follow_lookup(i)
        \/ conc_follow_load(i)
        \/ conc_follow_flush(i)
        \/ conc_commit(i)
        \/ conc_rollback(i)
        \/ conc_close(i)
        \/ conc_respond(i)

SpecConc == InitConc /\ [][NextConc]_vars

\* ------------------------------------------- overlapping delete_tweet

conc_delete_tweet(i) ==
    /\ Free(slots[i])
    /\ \E user \in UserRowIds(db), tweet_id \in TweetIds :
           slots' = [slots EXCEPT ![i] = Taken(@, "delete_tweet", user, tweet_id, "take_tweet")]
    /\ UNCHANGED <<db, files, seq, resp>>

\* Tweet.delete_tweet: await cls.take_tweet(...), which loads the tweet with
\* its media, its likes and their users; TweetIdValidationError when it
\* returns None.
conc_take_tweet(i) ==
    /\ slots[i].pc = "take_tweet"
    /\ \E view \in {View(db, slots[i])} :
           slots' = [slots EXCEPT ![i] =
                        IF take_tweet(view, slots[i].arg, slots[i].user) = None
                        THEN Ended(@, view, Raise(Session(view, files, seq),
                                                  Exc("TweetIdValidationError")))
                        ELSE [@ EXCEPT !.snapshot = view, !.pc = "remove_files"]]
    /\ UNCHANGED <<db, files, seq, resp>>

\* The file names of the loaded media.
media_files(slot) == {m.file : m \in media_association(slot.snapshot, slot.arg)}

\* delete_associated_media in which the OSError of os.remove is not caught:
\* it ends the body of the request.
conc_remove_files_raising(i) ==
    /\ slots[i].pc = "remove_files"
    /\ files' = remove_files(files, media_association(slots[i].snapshot, slots[i].arg))
    /\ slots' = [slots EXCEPT ![i] =
                    IF media_files(@) \subseteq files
                    THEN [@ EXCEPT !.pc = "delete_media"]
                    ELSE [@ EXCEPT !.exc = Exc("FileNotFoundError"),
                                   !.pc = get_session_step("body", TRUE)]]
    /\ UNCHANGED <<db, seq, resp>>

\* Tweet.delete_associated_media: the loop of Media.delete_media_from_disk
\* over the loaded media.  os.remove of a file that is not there raises an
\* OSError, which is logged with the path and not raised again.
conc_remove_files(i) ==
    /\ slots[i].pc = "remove_files"
    /\ files' = remove_files(files, media_association(slots[i].snapshot, slots[i].arg))
    /\ slots' = [slots EXCEPT ![i].logged = media_files(slots[i]) \ files,
                              ![i].pc = "delete_media"]
    /\ UNCHANGED <<db, seq, resp>>

\* The ids of the loaded media.
media_ids(slot) == {m.id : m \in media_association(slot.snapshot, slot.arg)}

\* Tweet.delete_associated_media: await Media.delete_media_from_db_by_ids.
conc_delete_media(i) ==
    /\ slots[i].pc = "delete_media"
    /\ \E view \in {View(db, slots[i])} :
           /\ ~Waits(i, [EmptyDb EXCEPT
                            !.media = {m \in view.media : m.id \in media_ids(slots[i])}])
           /\ slots' = [slots EXCEPT ![i] =
                  [Ended(@, view,
                         [Session(view, files, seq) EXCEPT
                             !.db = delete_media_from_db_by_ids(@, media_ids(slots[i]))])
                   EXCEPT !.pc = "delete_likes"]]
    /\ UNCHANGED <<db, files, seq, resp>>

\* Tweet.delete_tweet: await cls.delete_associated_likes(...) over the
\* loaded likes.
conc_delete_likes(i) ==
    /\ slots[i].pc = "delete_likes"
    /\ \E view \in {View(db, slots[i])} :
           \E body \in {delete_associated_likes(
                            Session(view, files, seq),
                            like_association(slots[i].snapshot, slots[i].arg),
                            slots[i].snapshot, slots[i].arg)} :
               slots' = [slots EXCEPT ![i] =
                            IF body.exc # NoExc
                            THEN Ended(@, view, body)
                            ELSE [Ended(@, view, body) EXCEPT !.pc = "delete_row"]]
    /\ UNCHANGED <<db, files, seq, resp>>

\* Tweet.delete_tweet: await session.delete(tweet) and await session.flush().
conc_delete_row(i) ==
    /\ slots[i].pc = "delete_row"
    /\ \E view \in {View(db, slots[i])} :
           /\ ~Waits(i, Union(slots[i].del, [EmptyDb EXCEPT !.tweets = {slots[i].arg}]))
           /\ slots' = [slots EXCEPT ![i] =
                  Ended(@, view,
                        [Session(view, files, seq) EXCEPT
                            !.db = session_delete_tweet(@, slots[i].arg)])]
    /\ UNCHANGED <<db, files, seq, resp>>

\* Two users, a tweet of the first with a Media row attached and a like of
\* the second on it, as five requests served one after another leave them.
InitDelete ==
    /\ db = [EmptyDb EXCEPT !.users = {[id |-> k, api_key |-> hash_api_key(k)] : k \in 1..2},
                            !.tweets = {1},
                            !.user_tweets = {<<1, 1>>},
                            !.media = {[id |-> 1, file |-> 1]},
                            !.tweets_media = {<<1, 1>>},
                            !.likes = {1},
                            !.user_likes = {<<2, 1>>},
                            !.tweets_likes = {<<1, 1>>}]
    /\ files = {1}
    /\ seq = [users |-> 3, tweets |-> 2, likes |-> 2, media |-> 2, uuid |-> 2]
    /\ resp = NoResponse
    /\ slots = [i \in Slots |-> IdleSlot]

\* Overlapping like_tweet and delete_tweet requests.
NextDelete ==
    \E i \in Slots :
        \/ conc_like_tweet(i)
        \/ conc_has_like(i)
        \/ conc_add_like(i)
        \/ conc_delete_tweet(i)
        \/ conc_take_tweet(i)
        \/ conc_remove_files(i)
        \/ conc_delete_media(i)
        \/ conc_delete_likes(i)
        \/ conc_delete_row(i)
        \/ conc_commit(i)
        \/ conc_rollback(i)
        \/ conc_close(i)
        \/ conc_respond(i)

SpecDelete == InitDelete /\ [][NextDelete]_vars

\* ================================================================= claims

\* A step in which the server answers a request.
Answered == Idle /\ ~Idle'

\* The raw keys that authenticate as the user.
KeysOf(d, user) == {k \in Keys : get_user_by_api_key(d, hash_api_key(k)) = user}

LikeRecords(d, user, tweet) ==
    {l \in d.likes : <<user, l>> \in d.user_likes /\ <<tweet, l>> \in d.tweets_likes}

LikeRequest(key, tweet) == Request("like_tweet", key, tweet, <<>>, <<>>)

UnlikeRequest(key, tweet) == Request("unlike_tweet", key, tweet, <<>>, <<>>)

\* C1: for every user u and existing tweet t on which u has no like, two
\* like requests of u for t in a row leave no Like record of (u, t), and a
\* like, an unlike and a like in a row leave exactly one.
C1_Toggle ==
    Idle =>
        \A u \in UserRowIds(db), t \in db.tweets :
            \A k \in KeysOf(db, u) :
                LikeRecords(db, u, t) = {} =>
                    /\ LikeRecords(
                           Serve(Serve(State, LikeRequest(k, t)), LikeRequest(k, t)).db,
                           u, t) = {}
                    /\ Cardinality(LikeRecords(
                           Serve(Serve(Serve(State, LikeRequest(k, t)),
                                       UnlikeRequest(k, t)),
                                 LikeRequest(k, t)).db,
                           u, t)) = 1

\* A like request was answered with success and left one Like record, the
\* second ever made, of the only user on the only tweet: the user liked the
\* tweet, the like was taken back, and the user liked it again.
C1_Witness ==
    /\ resp.op = "like_tweet"
    /\ resp.result
    /\ seq.users = 2
    /\ seq.tweets = 2
    /\ db.likes = {2}
    /\ LikeRecords(db, resp.user, resp.arg) = {2}

\* The number of Like records of a tweet.
LikesOf(d, tweet) == Cardinality({l \in d.likes : <<tweet, l>> \in d.tweets_likes})

\* The tweets with an author the user follows.
TweetsOfFollowed(d, user) ==
    {t \in d.tweets :
        \E author \in UserRowIds(d) :
            /\ <<author, t>> \in d.user_tweets
            /\ <<user, author>> \in d.subscription}

MediaOf(d, tweet) == {m \in d.media : <<tweet, m.id>> \in d.tweets_media}

LikeIdsOf(d, tweet) == {l \in d.likes : <<tweet, l>> \in d.tweets_likes}

IdNotFound(r) ==
    /\ r.status_code = 400
    /\ ~r.result
    /\ r.error_type = "IDValidationError"
    /\ r.error_message = "The provided id could not be found"

\* C3: a delete_tweet(t) answered with success removes the tweet row, every
\* Like record of t, every Media row attached to t and the files of those
\* rows; a tweet that is gone stays gone, and a later delete_tweet or
\* add_like naming it fails with the tweet-not-found error.
C3_DeleteTweet ==
    [][Answered =>
        /\ (resp'.op = "delete_tweet" /\ resp'.result) =>
               /\ resp'.arg \in db.tweets
               /\ resp'.arg \notin db'.tweets
               /\ LikeIdsOf(db, resp'.arg) \cap db'.likes = {}
               /\ \A l \in LikeIdsOf(db, resp'.arg) :
                      \A p \in db'.user_likes \cup db'.tweets_likes : p[2] # l
               /\ \A p \in db'.tweets_likes \cup db'.tweets_media : p[1] # resp'.arg
               /\ \A p \in db'.user_tweets : p[2] # resp'.arg
               /\ \A m \in MediaOf(db, resp'.arg) :
                      /\ m.id \notin MediaRowIds(db')
                      /\ m.file \notin files'
        /\ \A t \in 1..(seq.tweets - 1) : t \notin db.tweets => t \notin db'.tweets
        /\ (/\ resp'.op \in {"delete_tweet", "like_tweet"}
            /\ resp'.reached
            /\ resp'.arg < seq.tweets
            /\ resp'.arg \notin db.tweets) =>
               /\ IdNotFound(resp')
               /\ db' = db /\ files' = files
      ]_vars

\* A delete_tweet answered with success for the only tweet ever made, after
\* a Like and a Media row were made: no tweet, Like, Media row or file is
\* left.
C3_Witness ==
    /\ resp.op = "delete_tweet"
    /\ resp.result
    /\ seq.tweets = 2
    /\ seq.likes = 2
    /\ seq.media = 2
    /\ db.tweets = {} /\ db.likes = {} /\ db.media = {} /\ files = {}

\* C4: no user is ever in their own followed set, and a follow_user whose
\* target is the requesting user is always rejected with the self-following
\* error and changes nothing.
C4_NoSelfFollow ==
    [][/\ \A u \in UserRowIds(db') : <<u, u>> \notin db'.subscription
       /\ (Answered /\ resp'.op = "follow_user" /\ resp'.reached
              /\ resp'.arg = resp'.user) =>
              /\ resp'.status_code = 400
              /\ ~resp'.result
              /\ resp'.error_type = "SelfFollowingValidationError"
              /\ db' = db /\ files' = files /\ seq' = seq
      ]_vars

\* A user's request to follow themselves was answered.
C4_Witness ==
    /\ resp.op = "follow_user"
    /\ resp.reached
    /\ resp.user \in UserRowIds(db)
    /\ resp.arg = resp.user
    /\ resp.error_type = "SelfFollowingValidationError"

UsersWithKey(d, key) == {u \in d.users : u.api_key = hash_api_key(key)}

\* C5: creating a user with a key no user has succeeds and adds exactly one
\* user, with that key; creating one with a key a user has fails with the
\* uniqueness error (400) and adds no user; at no time do two users have the
\* same key.
C5_UniqueKey ==
    [][/\ \A a, b \in db'.users : a.api_key = b.api_key => a = b
       /\ (Answered /\ resp'.op = "create_user") =>
              IF UsersWithKey(db, resp'.arg) = {}
              THEN /\ resp'.result
                   /\ resp'.status_code = 201
                   /\ db.users \subseteq db'.users
                   /\ Cardinality(db'.users \ db.users) = 1
                   /\ db'.users \ db.users = UsersWithKey(db', resp'.arg)
              ELSE /\ ~resp'.result
                   /\ resp'.status_code = 400
                   /\ resp'.error_type = "UniqueDataError"
                   /\ db' = db
      ]_vars

\* A create_user with the key of an existing user was answered.
C5_Witness ==
    /\ resp.op = "create_user"
    /\ UsersWithKey(db, resp.arg) # {}
    /\ resp.error_type = "UniqueDataError"
    /\ Cardinality(db.users) = 2

\* The request answered by resp went to a route that asks for an api key.
KeyAsked(r) == r.op \notin no_key_paths \cup {"none"}

NoHeader(r) == KeyAsked(r) /\ r.hdr = None

UnknownKey(d, r) == KeyAsked(r) /\ r.hdr # None /\ UsersWithKey(d, r.hdr) = {}

\* C6: a request to a route that asks for an api key is answered with
\* status 400 when it has no api-key header and with status 403 when its
\* key is no user's.
C6_Status400And403 ==
    /\ NoHeader(resp) => resp.status_code = 400
    /\ UnknownKey(db, resp) => resp.status_code = 403

\* A request without header, or with a key that is no user's, was answered
\* at a time when a user exists.
C6_Witness ==
    /\ NoHeader(resp) \/ UnknownKey(db, resp)
    /\ db.users # {}
    /\ resp.status_code # 0

\* C7: on every route other than user creation and the documentation, a
\* request without api-key header or with a key that is no user's never
\* reaches its handler, changes nothing, and is answered with status 500
\* and the failure envelope: result false, an error type and an error
\* message.
C7_Unauthenticated500 ==
    [][(Answered /\ (NoHeader(resp') \/ UnknownKey(db, resp'))) =>
           /\ ~resp'.reached
           /\ resp'.status_code = 500
           /\ resp'.result = FALSE
           /\ resp'.error_type = "HTTPException"
           /\ resp'.error_message = "Something went wrong on the server side"
           /\ db' = db /\ files' = files /\ seq' = seq
      ]_vars

\* A like request for an existing tweet with a key that is no user's,
\* while the other key is a user's, was answered.
C7_Witness ==
    /\ resp.op = "like_tweet"
    /\ UnknownKey(db, resp)
    /\ resp.arg \in db.tweets
    /\ db.users # {}
    /\ resp.status_code = 500

\* C8: the database changes of a request are all or nothing: when the
\* route raises, the database after the request is the database before it;
\* when it does not raise, the database after the request holds every
\* change the route made in its session.
C8_AllOrNothing ==
    [][(Answered /\ resp'.reached) =>
           /\ ~resp'.result => db' = db
           /\ resp'.result =>
                  db' = route([op |-> resp'.op, hdr |-> resp'.hdr, arg |-> resp'.arg,
                               ids |-> resp'.ids,
                               fetched |-> [i \in DOMAIN resp'.body |-> resp'.body[i].id]],
                              Session(db, files, seq), resp'.user).db
      ]_vars

\* A create_user whose insert the unique index refused was answered: the
\* session held the new row when the flush raised.
C8_Witness ==
    /\ resp.op = "create_user"
    /\ resp.reached
    /\ ~resp.result
    /\ resp.error_type = "UniqueDataError"
    /\ \E u \in db.users : u.api_key = hash_api_key(resp.arg) /\ u.id = 1

AuthorsOf(d, tweet) == {u \in UserRowIds(d) : <<u, tweet>> \in d.user_tweets}

\* C9: delete_tweet fails with the same tweet-not-found error (400,
\* IDValidationError) when the tweet does not exist and when its author is
\* not the requesting user, and then leaves the tweet, its likes, its media
\* rows and the files as they were.
C9_DeleteForeignTweet ==
    [][(/\ Answered
        /\ resp'.op = "delete_tweet"
        /\ resp'.reached
        /\ (resp'.arg \notin db.tweets \/ resp'.user \notin AuthorsOf(db, resp'.arg))) =>
           /\ IdNotFound(resp')
           /\ db' = db /\ files' = files
      ]_vars

\* A delete_tweet of a user for an existing tweet of another user, with a
\* like and a media row, was answered.
C9_Witness ==
    /\ resp.op = "delete_tweet"
    /\ resp.reached
    /\ resp.arg \in db.tweets
    /\ AuthorsOf(db, resp.arg) # {}
    /\ resp.user \notin AuthorsOf(db, resp.arg)
    /\ LikeIdsOf(db, resp.arg) # {}
    /\ MediaOf(db, resp.arg) # {}
    /\ IdNotFound(resp)

\* C10: add_tweet with a non-empty media id list of which at least one id
\* is no Media row's fails with the media-id error (400), makes no tweet
\* and no attachment: the ids of the list that do exist are not attached.
C10_MissingMedia ==
    [][(/\ Answered
        /\ resp'.op = "create_tweet"
        /\ resp'.reached
        /\ \E i \in DOMAIN resp'.ids : resp'.ids[i] \notin MediaRowIds(db)) =>
           /\ IdNotFound(resp')
           /\ db'.tweets = db.tweets
           /\ db'.tweets_media = db.tweets_media
           /\ db' = db /\ seq' = seq
      ]_vars

\* A create_tweet naming a Media row that exists and one that does not was
\* answered.
C10_Witness ==
    /\ resp.op = "create_tweet"
    /\ resp.reached
    /\ Len(resp.ids) = 2
    /\ resp.ids[1] \in MediaRowIds(db)
    /\ resp.ids[2] \notin MediaRowIds(db)
    /\ IdNotFound(resp)

\* C11: add_like for a tweet id that is no tweet's fails with the
\* tweet-not-found error (400, IDValidationError) and makes no Like record.
C11_LikeMissingTweet ==
    [][(/\ Answered
        /\ resp'.op = "like_tweet"
        /\ resp'.reached
        /\ resp'.arg \notin db.tweets) =>
           /\ IdNotFound(resp')
           /\ db'.likes = db.likes
           /\ db'.user_likes = db.user_likes
           /\ db'.tweets_likes = db.tweets_likes
           /\ seq'.likes = seq.likes
      ]_vars

\* A like request of a user for a tweet id that was never handed out was
\* answered, while another tweet exists.
C11_Witness ==
    /\ resp.op = "like_tweet"
    /\ resp.reached
    /\ resp.arg >= seq.tweets
    /\ db.tweets # {}
    /\ IdNotFound(resp)

\* C12: an unlike request of a user who has no Like on the tweet, the tweet
\* existing or not, is answered with a 400 failure envelope and leaves every
\* Like record as it was.
C12_UnlikeWithoutLike ==
    [][(/\ Answered
        /\ resp'.op = "unlike_tweet"
        /\ resp'.reached
        /\ LikeRecords(db, resp'.user, resp'.arg) = {}) =>
           /\ resp'.status_code = 400
           /\ ~resp'.result
           /\ resp'.error_type = "UnmappedInstanceError"
           /\ resp'.error_message = "Nothing to delete"
           /\ db'.likes = db.likes
           /\ db'.user_likes = db.user_likes
           /\ db'.tweets_likes = db.tweets_likes
      ]_vars

\* An unlike request of a user without a like on an existing tweet that
\* another user likes was answered.
C12_Witness ==
    /\ resp.op = "unlike_tweet"
    /\ resp.reached
    /\ resp.arg \in db.tweets
    /\ LikeRecords(db, resp.user, resp.arg) = {}
    /\ LikeIdsOf(db, resp.arg) # {}
    /\ resp.error_type = "UnmappedInstanceError"

\* C13: follow_user and unfollow_user each reject a target that is the
\* requesting user with their self-relation error and a target that is no
\* user with the user-not-found error (IDValidationError), both with status
\* 400, and the follow graph stays as it was.
C13_FollowRejections ==
    [][(/\ Answered
        /\ resp'.op \in {"follow_user", "unfollow_user"}
        /\ resp'.reached
        /\ (resp'.arg = resp'.user \/ resp'.arg \notin UserRowIds(db))) =>
           /\ resp'.status_code = 400
           /\ ~resp'.result
           /\ resp'.error_type =
                  IF resp'.arg # resp'.user THEN "IDValidationError"
                  ELSE IF resp'.op = "follow_user" THEN "SelfFollowingValidationError"
                  ELSE "SelfUnFollowingValidationError"
           /\ resp'.arg # resp'.user => IdNotFound(resp')
           /\ db'.subscription = db.subscription
           /\ db' = db
      ]_vars

\* An unfollow request of a user for an id that is no user's was answered
\* with the not-found error.
C13_Witness ==
    /\ resp.op = "unfollow_user"
    /\ resp.reached
    /\ resp.arg # resp.user
    /\ resp.arg \notin UserRowIds(db)
    /\ IdNotFound(resp)

\* C15: an upload that is no decodable image is answered with status 400
\* and error_type ImageValidationError, makes no Media row and writes no
\* file.
C15_NotAnImage ==
    [][(/\ Answered
        /\ resp'.op = "create_media"
        /\ resp'.reached
        /\ resp'.arg # 1) =>
           /\ resp'.status_code = 400
           /\ ~resp'.result
           /\ resp'.error_type = "ImageValidationError"
           /\ db'.media = db.media
           /\ files' = files
           /\ seq' = seq
      ]_vars

\* An upload that is no image was answered after an image was uploaded.
C15_Witness ==
    /\ resp.op = "create_media"
    /\ resp.reached
    /\ resp.arg = 0
    /\ resp.error_type = "ImageValidationError"
    /\ db.media # {}
    /\ files # {}

\* C16: with requests served one after another, every reachable state has
\* at most one Like record for each pair of a user and a tweet.
C16_OneLikePerPair ==
    \A u \in UserIds, t \in TweetIds : Cardinality(LikeRecords(db, u, t)) <= 1

\* A like request was answered with success after which the two Like
\* records ever made both exist, each for a pair of its own.
C16_Witness ==
    /\ resp.op = "like_tweet"
    /\ resp.result
    /\ Cardinality(db.likes) = 2
    /\ seq.likes = 3

\* C14: the error translation answers every raised exception: one whose
\* exact class is registered with the registered status, error_type and
\* error_message; any other, a subclass of a registered class included, with
\* status 500 and the name of its class as error_type; result is false in
\* each of these responses.
C14_ErrorTranslation ==
    [][(Answered /\ resp'.op = "raise") =>
           /\ resp'.result = FALSE
           /\ IF raised_types[resp'.arg] \in DOMAIN error_handlers
              THEN /\ resp'.status_code = error_handlers[raised_types[resp'.arg]].status_code
                   /\ resp'.status_code = 400
                   /\ resp'.error_type = error_handlers[raised_types[resp'.arg]].error_type
                   /\ resp'.error_message =
                          error_handlers[raised_types[resp'.arg]].error_message
              ELSE /\ resp'.status_code = 500
                   /\ resp'.error_type = raised_types[resp'.arg]
      ]_vars

\* A request that raised NoResultFound, a subclass of the registered
\* InvalidRequestError, was answered.
C14_Witness ==
    /\ resp.op = "raise"
    /\ raised_types[resp.arg] = "NoResultFound"
    /\ base_of("NoResultFound") \in DOMAIN error_handlers
    /\ resp.status_code = 500
    /\ db.users # {}

\* The followers and the following of a user as get_user answers them.
FollowersOf(d, a) == get_user_schema(d, a).followers

FollowingOf(d, a) == get_user_schema(d, a).following

\* C20: for all users a and b, b is among a's followers exactly when a is
\* in b's followed set, in the database and in the answers of the user
\* routes; a successful follow_user adds the requester to the target's
\* followers, a successful unfollow_user removes it, and no other request
\* changes the followers or the following of any user.
C20_FollowersInverse ==
    [][/\ \A a, b \in UserRowIds(db') :
              b \in FollowersOf(db', a) <=> <<b, a>> \in db'.subscription
       /\ \A a, b \in UserRowIds(db') :
              a \in FollowingOf(db', b) <=> <<b, a>> \in db'.subscription
       /\ (Answered /\ resp'.op \in {"get_current_user", "get_user"} /\ resp'.result) =>
              /\ Len(resp'.body) = 1
              /\ resp'.body[1].id = (IF resp'.op = "get_user" THEN resp'.arg ELSE resp'.user)
              /\ resp'.body[1].followers =
                     {b \in UserRowIds(db) : <<b, resp'.body[1].id>> \in db.subscription}
              /\ resp'.body[1].following =
                     {b \in UserRowIds(db) : <<resp'.body[1].id, b>> \in db.subscription}
       /\ Answered =>
              \A a \in UserRowIds(db') :
                  LET old == IF a \in UserRowIds(db)
                             THEN get_user_schema(db, a)
                             ELSE [id |-> a, followers |-> {}, following |-> {}]
                      new == get_user_schema(db', a)
                  IN  IF resp'.op = "follow_user" /\ resp'.result
                      THEN /\ new.followers = old.followers
                                \cup (IF a = resp'.arg THEN {resp'.user} ELSE {})
                           /\ new.following = old.following
                                \cup (IF a = resp'.user THEN {resp'.arg} ELSE {})
                      ELSE IF resp'.op = "unfollow_user" /\ resp'.result
                      THEN /\ new.followers = old.followers
                                \ (IF a = resp'.arg THEN {resp'.user} ELSE {})
                           /\ new.following = old.following
                                \ (IF a = resp'.user THEN {resp'.arg} ELSE {})
                      ELSE new = old
      ]_vars

\* get_user answered a user with a follower whom the user does not follow.
C20_Witness ==
    /\ resp.op = "get_user"
    /\ resp.result
    /\ resp.body[1].followers # {}
    /\ resp.body[1].following = {}
    /\ resp.body[1].id # resp.user

\* The step is slot i's commit, refused or not.
Commits(i) == slots[i].pc = "commit" /\ slots'[i].pc # "commit"

\* C17: two add_like requests of one user for one tweet that overlap both
\* find no like and both insert: no constraint refuses the commit of a
\* request that found no like, each such commit adds its Like record to the
\* ones the pair has, and so a pair with two Like records is reachable.
C17_OverlappingLikes ==
    [][\A i \in Slots :
           (Commits(i) /\ slots[i].op = "like_tweet" /\ ~slots[i].liked) =>
               /\ slots'[i].pc = "close"
               /\ slots'[i].exc = NoExc
               /\ Cardinality(slots[i].ins.likes) = 1
               /\ slots[i].ins.likes \cap db.likes = {}
               /\ LikeRecords(db', slots[i].user, slots[i].arg) =
                      LikeRecords(db, slots[i].user, slots[i].arg) \cup slots[i].ins.likes
      ]_vars

\* Two like requests of one user for one tweet, neither of which found a
\* like, were both answered 201 and the pair has two Like records.
C17_Witness ==
    /\ \A i \in Slots :
           /\ slots[i].op = "like_tweet"
           /\ slots[i].pc = "done"
           /\ ~slots[i].liked
           /\ slots[i].status_code = 201
           /\ slots[i].user = slots[1].user
           /\ slots[i].arg = slots[1].arg
    /\ Cardinality(LikeRecords(db, slots[1].user, slots[1].arg)) = 2

SessionOpen(slot) ==
    slot.pc \in {"has_like", "add_like", "lookup", "load", "flush",
                 "take_tweet", "remove_files", "delete_media", "delete_likes",
                 "delete_row", "commit", "rollback", "close"}

Closes(calls) == Cardinality({n \in DOMAIN calls : calls[n] = "close"})

\* C18: the session of a request is closed exactly once on every way out
\* of get_session: after the commit when nothing raised, after the rollback
\* when the body or the commit raised, and then the exception is raised
\* again (the request is answered with a failure); no session is open, or
\* closed twice, once its request is done.
C18_SessionClosedOnce ==
    \A i \in Slots :
        /\ Closes(slots[i].calls) <= 1
        /\ SessionOpen(slots[i]) => Closes(slots[i].calls) = 0
        /\ slots[i].pc = "done" =>
               /\ Closes(slots[i].calls) = 1
               /\ slots[i].calls \in {<<"commit", "close">>, <<"rollback", "close">>,
                                      <<"commit", "rollback", "close">>}
               /\ slots[i].exc = NoExc <=> slots[i].calls = <<"commit", "close">>
               /\ (slots[i].status_code # 0 /\ slots[i].exc # NoExc) =>
                      slots[i].status_code \in {400, 500}
               /\ slots[i].ins = EmptyDb \/ slots[i].exc = NoExc

\* A request whose commit raised is done: its session was rolled back and
\* then closed.
C18_Witness ==
    \E i \in Slots :
        /\ slots[i].pc = "done"
        /\ slots[i].calls = <<"commit", "rollback", "close">>
        /\ slots[i].exc # NoExc
        /\ slots[i].status_code # 0

\* C19: the follow graph never gets a second edge for a pair: no commit
\* inserts an edge the graph holds, overlapping follow requests of one
\* follower for one target included, and a follow request for a user who
\* was followed when the request loaded the followed users leaves the graph
\* as it is.
C19_OneEdgePerPair ==
    [][\A i \in Slots :
           (Commits(i) /\ slots'[i].pc = "close") =>
               /\ slots[i].ins.subscription \cap db.subscription = {}
               /\ db'.subscription = db.subscription \cup slots[i].ins.subscription
               /\ (slots[i].op = "follow_user" /\ slots[i].arg \in slots[i].loaded) =>
                      db'.subscription = db.subscription
      ]_vars

\* Two overlapping follow requests of one follower for one target are done:
\* one was answered 201, the other was refused by the primary key, and the
\* graph holds the edge.
C19_Witness ==
    /\ \A i \in Slots :
           /\ slots[i].op = "follow_user"
           /\ slots[i].pc = "done"
           /\ slots[i].loaded = {}
           /\ slots[i].user = slots[1].user
           /\ slots[i].arg = slots[1].arg
    /\ \E i, j \in Slots :
           /\ slots[i].status_code = 201
           /\ slots[j].status_code = 400
           /\ slots[j].exc = Exc("IntegrityError")
    /\ <<slots[1].user, slots[1].arg>> \in db.subscription

\* The rows of user_tweets of a tweet.
AuthorRows(d, tweet) == {p \in d.user_tweets : p[2] = tweet}

\* C21: every tweet has exactly one author; the tweet a create_tweet makes
\* has the user whose api key authenticated the request as its author; and
\* no request adds an author to a tweet that exists or changes its author.
C21_OneAuthor ==
    [][/\ \A t \in db'.tweets :
              /\ Cardinality(AuthorRows(db', t)) = 1
              /\ Cardinality(user_association(db', t)) = 1
       /\ Answered =>
              /\ \A t \in db.tweets \cap db'.tweets : AuthorRows(db', t) = AuthorRows(db, t)
              /\ (db'.tweets \ db.tweets # {}) =>
                     /\ resp'.op = "create_tweet"
                     /\ resp'.result
                     /\ resp'.hdr \in KeysOf(db, resp'.user)
                     /\ db'.tweets \ db.tweets = {seq.tweets}
                     /\ AuthorRows(db', seq.tweets) = {<<resp'.user, seq.tweets>>}
              /\ (resp'.op = "create_tweet" /\ resp'.result) =>
                     db'.tweets \ db.tweets = {seq.tweets}
      ]_vars

\* The second user's create_tweet was answered with success while a tweet
\* of the first user exists: each of the two tweets has its own author.
C21_Witness ==
    /\ resp.op = "create_tweet"
    /\ resp.result
    /\ resp.user = 2
    /\ db.tweets = {1, 2}
    /\ AuthorRows(db, 1) = {<<1, 1>>}
    /\ AuthorRows(db, 2) = {<<2, 2>>}

\* The place of x in the sequence q.
Pos(q, x) == CHOOSE n \in DOMAIN q : q[n] = x

FeedRequest(key, fetched) == Request("get_tweets", key, None, <<>>, fetched)

\* C22: whatever the order in which the tweets query returns its rows, the
\* feed holds the fetched tweets, and two tweets of the feed with the same
\* number of likes are in the order in which they were fetched.
C22_StableFeed ==
    \A k \in Keys :
        get_user_by_api_key(db, hash_api_key(k)) # None =>
            \A fetched \in Orders(Fetchable(k)) :
                LET body == Serve(State, FeedRequest(k, fetched)).resp.body
                IN  /\ Len(body) = Len(fetched)
                    /\ {body[i].id : i \in DOMAIN body} = Range(fetched)
                    /\ \A i, j \in DOMAIN body :
                           (/\ i < j
                            /\ like_count(db, body[i].id) = like_count(db, body[j].id)) =>
                               Pos(fetched, body[i].id) < Pos(fetched, body[j].id)

\* A feed of two tweets with one like each was answered with the newer
\* tweet first: the query returned the newer tweet first.
C22_Witness ==
    /\ resp.op = "get_tweets"
    /\ resp.result
    /\ Len(resp.body) = 2
    /\ like_count(db, resp.body[1].id) = 1
    /\ like_count(db, resp.body[2].id) = 1
    /\ resp.body[1].id > resp.body[2].id

\* The Media rows a list of ids resolves to.
Resolved(d, ids) == {m \in d.media : \E n \in DOMAIN ids : ids[n] = m.id}

\* C23: a create_tweet that reached add_tweet is rejected, with the media-id
\* error (400, IDValidationError) and without a change, exactly when its
\* list of media ids is not empty and the number of Media rows it resolves
\* to differs from its length, a list naming one existing id twice
\* included; otherwise it makes one tweet with exactly the resolved rows
\* attached, none for the empty list.
C23_ResolvedCount ==
    [][(Answered /\ resp'.op = "create_tweet" /\ resp'.reached) =>
           IF /\ Len(resp'.ids) > 0
              /\ Cardinality(Resolved(db, resp'.ids)) # Len(resp'.ids)
           THEN /\ IdNotFound(resp')
                /\ db' = db /\ files' = files /\ seq' = seq
           ELSE /\ resp'.result
                /\ resp'.status_code = 201
                /\ db'.tweets = db.tweets \cup {seq.tweets}
                /\ seq.tweets \notin db.tweets
                /\ db'.tweets_media =
                       db.tweets_media
                           \cup {<<seq.tweets, m.id>> : m \in Resolved(db, resp'.ids)}
                /\ db'.media = db.media
      ]_vars

\* A create_tweet naming the id of an existing Media row twice was answered
\* with the media-id error.
C23_Witness ==
    /\ resp.op = "create_tweet"
    /\ resp.reached
    /\ Len(resp.ids) = 2
    /\ resp.ids[1] = resp.ids[2]
    /\ resp.ids[1] \in MediaRowIds(db)
    /\ IdNotFound(resp)

\* The Media row is attached to no tweet.
Orphan(d, m) == \A p \in d.tweets_media : p[2] # m.id

\* C24: a Media row that is attached to no tweet has its file, and every
\* request leaves that row and that file where they are.
C24_OrphanMediaKept ==
    [][Answered =>
           \A m \in db.media :
               Orphan(db, m) =>
                   /\ m.file \in files
                   /\ m \in db'.media
                   /\ m.file \in files'
      ]_vars

\* A delete_tweet was answered with success that removed the tweet's Media
\* row and file, and the other Media row, attached to no tweet, is there
\* with its file.
C24_Witness ==
    /\ resp.op = "delete_tweet"
    /\ resp.result
    /\ seq.media = 3
    /\ Cardinality(db.media) = 1
    /\ Cardinality(files) = 1
    /\ \A m \in db.media : Orphan(db, m) /\ m.file \in files

\* A delete_tweet request is between its take_tweet and the end of its
\* session.
Deleting(slot) == slot.op = "delete_tweet" /\ SessionOpen(slot)

\* C25: whenever no delete_tweet request is under way, those that overlapped
\* another request or were rolled back after they started included, the
\* file of every Media row is on disk.
C25_MediaFilesExist ==
    (\A i \in Slots : ~Deleting(slots[i])) => \A m \in db.media : m.file \in files

\* A delete_tweet of the author overlapped the liking user's request that
\* took the like back: Like.delete_like found no like, the delete_tweet was
\* rolled back and answered 400 after it had removed the file, and the
\* tweet and its Media row are there without the file.
C25_Witness ==
    \E i, j \in Slots :
        /\ slots[i].op = "delete_tweet"
        /\ slots[i].pc = "done"
        /\ slots[i].exc = Exc("UnmappedInstanceError")
        /\ slots[i].status_code = 400
        /\ slots[i].calls = <<"rollback", "close">>
        /\ slots[j].op = "like_tweet"
        /\ slots[j].liked
        /\ slots[j].status_code = 201
        /\ slots[i].arg \in db.tweets
        /\ \E m \in media_association(db, slots[i].arg) : m.file \notin files

\* The slot's request ends its step at pc.
Leaves(i, pc) == slots[i].pc = pc /\ slots'[i].pc # pc

TweetsOf(d, m) == {tw \in d.tweets : <<tw, m.id>> \in d.tweets_media}

\* C27: a create_tweet whose media ids are distinct ids of Media rows
\* succeeds and attaches each, whoever made the rows and whatever tweets they
\* are attached to; a delete_tweet(t) answered with success deletes every
\* Media row attached to t and its file, the rows also attached to another
\* tweet included, and every other tweet stays, with the attachments it had
\* less those rows.
C27_SharedMedia ==
    [][Answered =>
           /\ (/\ resp'.op = "create_tweet"
               /\ resp'.reached
               /\ Len(resp'.ids) > 0
               /\ Cardinality(Resolved(db, resp'.ids)) = Len(resp'.ids)) =>
                  /\ resp'.result
                  /\ \A m \in Resolved(db, resp'.ids) :
                         TweetsOf(db', m) = TweetsOf(db, m) \cup {seq.tweets}
           /\ (resp'.op = "delete_tweet" /\ resp'.result) =>
                  /\ \A m \in MediaOf(db, resp'.arg) :
                         /\ m \notin db'.media
                         /\ m.file \notin files'
                         /\ \A p \in db'.tweets_media : p[2] # m.id
                  /\ db'.tweets = db.tweets \ {resp'.arg}
                  /\ \A t2 \in db'.tweets :
                         MediaOf(db', t2) = MediaOf(db, t2) \ MediaOf(db, resp'.arg)
                  /\ db'.media = db.media \ MediaOf(db, resp'.arg)
      ]_vars

\* The second user's create_tweet was answered with success and attached a
\* Media row that is attached to the first user's tweet.
C27_Witness ==
    /\ resp.op = "create_tweet"
    /\ resp.result
    /\ resp.user = 2
    /\ AuthorsOf(db, 1) = {1}
    /\ AuthorsOf(db, 2) = {2}
    /\ \E m \in db.media : TweetsOf(db, m) = {1, 2}

\* C28: an unfollow_user of a user for another existing user whom the
\* requester does not follow is answered with status 500, error_type
\* ValueError and result false, and leaves the database, the follow graph
\* included, as it was.
C28_UnfollowNotFollowed ==
    [][(/\ Answered
        /\ resp'.op = "unfollow_user"
        /\ resp'.reached
        /\ resp'.arg # resp'.user
        /\ resp'.arg \in UserRowIds(db)
        /\ <<resp'.user, resp'.arg>> \notin db.subscription) =>
           /\ resp'.status_code = 500
           /\ resp'.result = FALSE
           /\ resp'.error_type = "ValueError"
           /\ resp'.error_message = "Something went wrong on the server side"
           /\ db'.subscription = db.subscription
           /\ db' = db
      ]_vars

\* An unfollow_user of a user for the other user, who follows the requester
\* and is not followed by the requester, was answered 500.
C28_Witness ==
    /\ resp.op = "unfollow_user"
    /\ resp.reached
    /\ resp.arg \in UserRowIds(db) \ {resp.user}
    /\ db.subscription = {<<resp.arg, resp.user>>}
    /\ resp.status_code = 500
    /\ resp.error_type = "ValueError"

\* The users and the existing tweets a Like row is linked to.
UsersOfLike(d, l) == {p \in d.user_likes : p[2] = l /\ p[1] \in UserRowIds(d)}

TweetsOfLike(d, l) == {p \in d.tweets_likes : p[2] = l /\ p[1] \in d.tweets}

\* C29: in every state, those reached by a like_tweet that overlaps a
\* delete_tweet of the same tweet included, every Like row is linked to
\* exactly one user and to exactly one tweet that exists.
C29_LikesLinked ==
    \A l \in db.likes :
        /\ Cardinality(UsersOfLike(db, l)) = 1
        /\ Cardinality(TweetsOfLike(db, l)) = 1

\* A like_tweet that found no like and the author's delete_tweet of the same
\* tweet overlapped and were answered 201 and 200: the tweet is gone and the
\* Like row of the like_tweet is there, linked to its user and to no tweet.
C29_Witness ==
    \E i, j \in Slots :
        /\ slots[i].op = "delete_tweet"
        /\ slots[i].pc = "done"
        /\ slots[i].status_code = 200
        /\ slots[j].op = "like_tweet"
        /\ slots[j].pc = "done"
        /\ ~slots[j].liked
        /\ slots[j].status_code = 201
        /\ slots[j].arg = slots[i].arg
        /\ slots[i].arg \notin db.tweets
        /\ \E l \in db.likes :
               /\ UsersOfLike(db, l) = {<<slots[j].user, l>>}
               /\ TweetsOfLike(db, l) = {}
               /\ \A p \in db.tweets_likes : p[2] # l

\* The Like rows of a user and a tweet with their association rows.
LikeRows(d, user, tweet) ==
    [likes |-> LikeRecords(d, user, tweet),
     user_likes |-> {p \in d.user_likes : p[2] \in LikeRecords(d, user, tweet)},
     tweets_likes |-> {p \in d.tweets_likes : p[2] \in LikeRecords(d, user, tweet)}]

\* C30: a like_tweet or unlike_tweet of user u for tweet t answered with
\* success changes the Like record of (u, t), adding one when there was
\* none and removing it otherwise, and nothing else: the Like records of
\* every other pair, the users, the tweets and their authors, the Media rows,
\* their attachments and files, and the follow graph are as they were.
C30_LikeFrame ==
    [][(Answered /\ resp'.op \in {"like_tweet", "unlike_tweet"} /\ resp'.result) =>
           /\ \A u \in UserIds, tw \in TweetIds :
                  <<u, tw>> # <<resp'.user, resp'.arg>> =>
                      LikeRows(db', u, tw) = LikeRows(db, u, tw)
           /\ IF LikeRecords(db, resp'.user, resp'.arg) = {}
              THEN /\ resp'.op = "like_tweet"
                   /\ LikeRecords(db', resp'.user, resp'.arg) = {seq.likes}
              ELSE LikeRecords(db', resp'.user, resp'.arg) = {}
           /\ db'.users = db.users
           /\ db'.tweets = db.tweets
           /\ db'.user_tweets = db.user_tweets
           /\ db'.media = db.media
           /\ db'.tweets_media = db.tweets_media
           /\ db'.subscription = db.subscription
           /\ files' = files
      ]_vars

\* An unlike_tweet was answered with success: the user's like of the tweet
\* is gone, the other user's like of the tweet is there.
C30_Witness ==
    /\ resp.op = "unlike_tweet"
    /\ resp.result
    /\ LikeRecords(db, resp.user, resp.arg) = {}
    /\ \E u \in UserRowIds(db) \ {resp.user} : LikeRecords(db, u, resp.arg) # {}
    /\ seq.likes = 3

====
